---- MODULE Spec2Model ----
(***************************************************************************)
(* Model of sks, the SkillsMP search client (src/src/main.rs).              *)
(*                                                                         *)
(* One invocation is a straight pipeline: build the request URL, send the  *)
(* GET request, read and decode the JSON body, check the API's own error   *)
(* signal, extract the data, project it to AiOutput and print it.          *)
(*                                                                         *)
(* Text is modelled as a sequence of tokens.  The query is a sequence of   *)
(* one-character strings so that percent-encoding works on it character    *)
(* by character; literal pieces of a format string are single tokens.      *)
(* A JSON value is a tagged record (JNull, JBool, JNum, JStr, JArr, JObj); *)
(* an object is a function from the field names it holds to JSON values,   *)
(* so a missing field is a name outside its DOMAIN.                        *)
(*                                                                         *)
(* The source's messages are Chinese; the module's strings are ASCII, so   *)
(* each message is an English stand-in, named where it is defined.         *)
(***************************************************************************)
EXTENDS Integers, Sequences, FiniteSets, TLC

VARIABLES
    pc,        \* position of main: start, built, sent, decoded, checked, projected, exit
    cli,       \* the parsed command line (struct Cli)
    request,   \* the HTTP request search_skills built, or NoRequest
    body,      \* the response body as read from the wire, or Unread
    response,  \* the decoded ApiResponse, or NoResponse
    output,    \* the AiOutput main assembled, or NoOutput
    stdout,    \* documents written to standard output, in order
    stderr,    \* lines written to standard error, in order
    exit,      \* None while running, Some(status) once the process has ended
    steps      \* the pipeline steps performed so far, in order: [op, ok]

vars == <<pc, cli, request, body, response, output, stdout, stderr, exit, steps>>

-----------------------------------------------------------------------------
(* Bounds of the model *)

\* longest query text, in characters
MaxQueryLen == 2

\* longest skills array built from the three well-formed skills
MaxSkills == 2

-----------------------------------------------------------------------------
(* Option<T> and Result<T> *)

None == [some |-> FALSE]
Some(x) == [some |-> TRUE, v |-> x]

Ok(x) == [ok |-> TRUE, v |-> x]
Err == [ok |-> FALSE]

-----------------------------------------------------------------------------
(* The command line *)

BASE_URL == "https://skillsmp.com/api/v1"

\* the characters a query is made of in this model
QueryChars == {"a", "2", " ", "%", "&"}

\* the byte of each query character (ASCII)
Byte == ("a" :> 97) @@ ("2" :> 50) @@ (" " :> 32) @@ ("%" :> 37) @@ ("&" :> 38)

SeqsUpTo(S, n) == UNION {[1..k -> S] : k \in 0..n}

Queries == SeqsUpTo(QueryChars, MaxQueryLen)

Limits == {10, 5}
Pages == {1, 12}
Sorts == {"recent", "stars", "x&y=1"}
ApiKeys == {"key-1", "key-2"}

MkCli(q, l, p, s, k) == [query |-> q, limit |-> l, page |-> p, sort |-> s, api_key |-> k]

\* every command line of the model
AllClis == {MkCli(q, l, p, s, k) : q \in Queries, l \in Limits, p \in Pages,
                                   s \in Sorts, k \in ApiKeys}

\* the command lines the whole pipeline is run on
MainClis == {MkCli(q, 10, p, "recent", "key-1") : q \in {<<"a">>, <<"%", "2">>}, p \in Pages}

-----------------------------------------------------------------------------
(* search_skills: the request *)

HexDigits == <<"0", "1", "2", "3", "4", "5", "6", "7", "8", "9",
               "A", "B", "C", "D", "E", "F">>

DecDigits == <<"0", "1", "2", "3", "4", "5", "6", "7", "8", "9">>

Letters == {"a"}

\* urlencoding::encode leaves ASCII letters, digits and - _ . ~ alone
IsUnreserved(c) ==
    \/ c \in Letters
    \/ \E i \in 1..10 : c = DecDigits[i]
    \/ c \in {"-", "_", ".", "~"}

\* %XX, upper-case hexadecimal
Hex(b) == <<HexDigits[(b \div 16) + 1], HexDigits[(b % 16) + 1]>>

EncodeChar(c) == IF IsUnreserved(c) THEN <<c>> ELSE <<"%">> \o Hex(Byte[c])

RECURSIVE encode(_)
encode(q) == IF q = <<>> THEN <<>> ELSE EncodeChar(Head(q)) \o encode(Tail(q))

\* Display of a u32: its decimal digits, no sign, no padding
RECURSIVE Dec(_)
Dec(n) == IF n < 10 THEN <<DecDigits[n + 1]>>
          ELSE Dec(n \div 10) \o <<DecDigits[(n % 10) + 1]>>

\* a URL whose query is put in unencoded
BuildUrl_Raw(c) ==
    <<BASE_URL, "/skills/search?q=">> \o c.query
        \o <<"&limit=">> \o Dec(c.limit)
        \o <<"&page=">> \o Dec(c.page)
        \o <<"&sortBy=", c.sort>>

BuildUrl(c) ==
    <<BASE_URL, "/skills/search?q=">> \o encode(c.query)
        \o <<"&limit=">> \o Dec(c.limit)
        \o <<"&page=">> \o Dec(c.page)
        \o <<"&sortBy=", c.sort>>

BuildHeaders(c) ==
    ("Authorization" :> <<"Bearer ", c.api_key>>) @@ ("Content-Type" :> <<"application/json">>)

MkRequest(c) == [method |-> "GET", url |-> BuildUrl(c), headers |-> BuildHeaders(c)]

NoRequest == [method |-> "none"]

-----------------------------------------------------------------------------
(* JSON values, as they come off the wire *)

JNull == [t |-> "null"]
JBool(x) == [t |-> "bool", b |-> x]
JNum(x) == [t |-> "num", n |-> x]
JStr(x) == [t |-> "str", s |-> x]
JArr(x) == [t |-> "arr", a |-> x]
JObj(x) == [t |-> "obj", o |-> x]

\* a body that is not JSON at all
JInvalid == [t |-> "invalid"]

\* what looking up a field the object does not hold gives
JMissing == [t |-> "missing"]

\* no body has been read yet
Unread == [t |-> "unread"]

Get(o, f) == IF f \in DOMAIN o THEN o[f] ELSE JMissing

Without(o, f) == [g \in DOMAIN o \ {f} |-> o[g]]
With(o, f, j) == [g \in DOMAIN o \cup {f} |-> IF g = f THEN j ELSE o[g]]

\* a JSON number above u32::MAX (TLC's integers end below it), and one with a fraction
JNumOver == [t |-> "numover"]
JNumFrac == [t |-> "numfrac"]

\* values of the wrong JSON type for the place where j stands
WrongFor(j) ==
    CASE j.t = "str"  -> {JNum(7)}
      [] j.t = "num"  -> {JStr("42"), JNum(-1), JNumOver, JNumFrac}
      [] j.t = "bool" -> {JStr("true")}
      [] j.t = "arr"  -> {JStr("none")}
      [] j.t = "obj"  -> {JStr("none")}

\* o with one field removed, set to null, or given a value of the wrong type
OneOff(o) ==
    {Without(o, f) : f \in DOMAIN o}
        \cup {With(o, f, JNull) : f \in DOMAIN o}
        \cup UNION {{With(o, f, w) : w \in WrongFor(o[f])} : f \in DOMAIN o}

-----------------------------------------------------------------------------
(* The response bodies of the model *)

SkillA == [id |-> JStr("s1"), name |-> JStr("Foo"), author |-> JStr("bar"),
           description |-> JStr("does foo"),
           githubUrl |-> JStr("https://github.com/bar/foo"),
           skillUrl |-> JStr("https://x"), stars |-> JNum(42)]

\* no skillUrl, but a githubUrl; description and stars are null
SkillB == [id |-> JStr("s2"), name |-> JStr("Baz"), author |-> JStr("qux"),
           description |-> JNull,
           githubUrl |-> JStr("https://github.com/qux/baz"),
           stars |-> JNull]

\* the required fields only
SkillC == [id |-> JStr("s3"), name |-> JStr("Quux"), author |-> JStr("bar")]

GoodSkills == {SkillA, SkillB, SkillC}

SkillLists ==
    {<<>>}
        \cup {<<JObj(s)>> : s \in GoodSkills \cup OneOff(SkillA)}
        \cup {<<JStr("Foo")>>}
        \cup UNION {[1..k -> {JObj(s) : s \in GoodSkills}] : k \in 2..MaxSkills}

PagA == [page |-> JNum(1), limit |-> JNum(10), total |-> JNum(0), totalPages |-> JNum(0),
         hasNext |-> JBool(FALSE), hasPrev |-> JBool(FALSE)]

PagB == [page |-> JNum(3), limit |-> JNum(10), total |-> JNum(57), totalPages |-> JNum(6),
         hasNext |-> JBool(TRUE), hasPrev |-> JBool(TRUE)]

MkData(l, p) == [skills |-> JArr(l), pagination |-> JObj(p)]

DataEmpty == MkData(<<>>, PagA)
DataOne == MkData(<<JObj(SkillA)>>, PagB)

\* the data objects: every skills array with a well-formed pagination, every
\* one-off pagination, and data itself with one field off
DataObjects ==
    {MkData(l, p) : l \in SkillLists, p \in {PagA, PagB}}
        \cup {MkData(<<JObj(SkillA)>>, p) : p \in OneOff(PagB)}
        \cup OneOff(DataOne)

\* a field of an object under construction: left out, or present with a value
Absent == [p |-> FALSE]
Present(j) == [p |-> TRUE, j |-> j]

MkObj(fields) == JObj([f \in {g \in DOMAIN fields : fields[g].p} |-> fields[f].j])

SuccessFields == {Absent, Present(JNull), Present(JBool(TRUE)), Present(JBool(FALSE)),
                  Present(JStr("false"))}

ErrorObjects ==
    {MkObj([code |-> c, message |-> m]) :
        c \in {Absent, Present(JStr("E429"))},
        m \in {Absent, Present(JNull), Present(JStr("Rate limited")), Present(JNum(429))}}

ErrorFields == {Absent, Present(JNull), Present(JStr("boom"))}
                   \cup {Present(e) : e \in ErrorObjects}

DataCoreFields == {Absent, Present(JNull), Present(JStr("none")),
                   Present(JObj(DataEmpty)), Present(JObj(DataOne))}

MkBody(s, e, d) == MkObj([success |-> s, error |-> e, data |-> d])

Bodies ==
    {JInvalid, JNull, JStr("Bad Gateway")}
        \cup {MkBody(s, e, d) : s \in SuccessFields, e \in ErrorFields, d \in DataCoreFields}
        \cup {MkBody(s, Absent, Present(JObj(d))) :
                s \in {Absent, Present(JBool(TRUE)), Present(JBool(FALSE))},
                d \in DataObjects}

-----------------------------------------------------------------------------
(* response.json(): serde's derived Deserialize for ApiResponse *)

DeBool(j) == IF j.t = "bool" THEN Ok(j.b) ELSE Err

\* String accepts a JSON string only
DeString_NullAsEmpty(j) ==
    IF j.t = "str" THEN Ok(j.s) ELSE IF j.t = "null" THEN Ok("") ELSE Err

DeString(j) == IF j.t = "str" THEN Ok(j.s) ELSE Err

\* u32 accepts a whole number from 0 to u32::MAX
DeU32(j) == IF j.t = "num" /\ j.n >= 0 THEN Ok(j.n) ELSE Err

\* a field of type T: the field must be there, and r is T's decoding of it
Required(j, r) == IF j.t = "missing" THEN Err ELSE r

\* a field of type Option<T>: missing and null are None, r is T's decoding of it
Optional(j, r) ==
    IF j.t \in {"missing", "null"} THEN Ok(None)
    ELSE IF r.ok THEN Ok(Some(r.v)) ELSE Err

DeApiError(j) ==
    IF j.t # "obj" THEN Err
    ELSE LET code == Optional(Get(j.o, "code"), DeString(Get(j.o, "code")))
             message == Optional(Get(j.o, "message"), DeString(Get(j.o, "message")))
         IN  IF code.ok /\ message.ok
             THEN Ok([code |-> code.v, message |-> message.v])
             ELSE Err

DeSkill(j) ==
    IF j.t # "obj" THEN Err
    ELSE LET id == Required(Get(j.o, "id"), DeString(Get(j.o, "id")))
             name == Required(Get(j.o, "name"), DeString(Get(j.o, "name")))
             author == Required(Get(j.o, "author"), DeString(Get(j.o, "author")))
             description == Optional(Get(j.o, "description"),
                                     DeString(Get(j.o, "description")))
             github_url == Optional(Get(j.o, "githubUrl"), DeString(Get(j.o, "githubUrl")))
             skill_url == Optional(Get(j.o, "skillUrl"), DeString(Get(j.o, "skillUrl")))
             stars == Optional(Get(j.o, "stars"), DeU32(Get(j.o, "stars")))
         IN  IF /\ id.ok /\ name.ok /\ author.ok /\ description.ok
                /\ github_url.ok /\ skill_url.ok /\ stars.ok
             THEN Ok([id |-> id.v, name |-> name.v, author |-> author.v,
                      description |-> description.v, github_url |-> github_url.v,
                      skill_url |-> skill_url.v, stars |-> stars.v])
             ELSE Err

DeVecSkill(j) ==
    IF j.t # "arr" THEN Err
    ELSE IF \A i \in 1..Len(j.a) : DeSkill(j.a[i]).ok
         THEN Ok([i \in 1..Len(j.a) |-> DeSkill(j.a[i]).v])
         ELSE Err

DePagination(j) ==
    IF j.t # "obj" THEN Err
    ELSE LET page == Required(Get(j.o, "page"), DeU32(Get(j.o, "page")))
             limit == Required(Get(j.o, "limit"), DeU32(Get(j.o, "limit")))
             total == Required(Get(j.o, "total"), DeU32(Get(j.o, "total")))
             total_pages == Required(Get(j.o, "totalPages"), DeU32(Get(j.o, "totalPages")))
             has_next == Required(Get(j.o, "hasNext"), DeBool(Get(j.o, "hasNext")))
             has_prev == Required(Get(j.o, "hasPrev"), DeBool(Get(j.o, "hasPrev")))
         IN  IF /\ page.ok /\ limit.ok /\ total.ok
                /\ total_pages.ok /\ has_next.ok /\ has_prev.ok
             THEN Ok([page |-> page.v, limit |-> limit.v, total |-> total.v,
                      total_pages |-> total_pages.v, has_next |-> has_next.v,
                      has_prev |-> has_prev.v])
             ELSE Err

DeResponseData(j) ==
    IF j.t # "obj" THEN Err
    ELSE LET skills == Required(Get(j.o, "skills"), DeVecSkill(Get(j.o, "skills")))
             pagination == Required(Get(j.o, "pagination"),
                                    DePagination(Get(j.o, "pagination")))
         IN  IF skills.ok /\ pagination.ok
             THEN Ok([skills |-> skills.v, pagination |-> pagination.v])
             ELSE Err

DeApiResponse(j) ==
    IF j.t # "obj" THEN Err
    ELSE LET success == Optional(Get(j.o, "success"), DeBool(Get(j.o, "success")))
             data == Optional(Get(j.o, "data"), DeResponseData(Get(j.o, "data")))
             error == Optional(Get(j.o, "error"), DeApiError(Get(j.o, "error")))
         IN  IF success.ok /\ data.ok /\ error.ok
             THEN Ok([success |-> success.v, data |-> data.v, error |-> error.v])
             ELSE Err

NoResponse == [success |-> "none"]

-----------------------------------------------------------------------------
(* main: the API's error signal, the projection, the printing *)

\* context "发送请求失败" of search_skills
MsgSendFailed == "send request failed"

\* context "解析响应失败" of search_skills
MsgParseFailed == "parse response failed"

\* context "响应中没有数据" of main
MsgNoData == "no data in response"

\* the panic of println! when standard output cannot be written
MsgPrintPanic == "failed printing to stdout"

\* if let Some(false) = response.success { if let Some(err) = response.error { .. } }
ApiFailed(r) == r.success.some /\ r.success.v = FALSE /\ r.error.some

\* the server's message is dropped
ErrorMessage_AlwaysUnknown(err) == "Unknown error"

\* a missing message is printed as nothing
ErrorMessage_EmptyFallback(err) == IF err.message.some THEN err.message.v ELSE ""

\* err.message.unwrap_or_else(|| "Unknown error".to_string())
ErrorMessage(err) == IF err.message.some THEN err.message.v ELSE "Unknown error"

UnwrapOr(opt, default) == IF opt.some THEN opt.v ELSE default

\* url falls back to github_url when skill_url is absent
AiSkill_GithubFallback(s) ==
    [name |-> s.name,
     author |-> s.author,
     description |-> UnwrapOr(s.description, ""),
     stars |-> UnwrapOr(s.stars, 0),
     url |-> UnwrapOr(s.skill_url, UnwrapOr(s.github_url, ""))]

AiSkill(s) ==
    [name |-> s.name,
     author |-> s.author,
     description |-> UnwrapOr(s.description, ""),
     stars |-> UnwrapOr(s.stars, 0),
     url |-> UnwrapOr(s.skill_url, "")]

\* page echoes the page asked for on the command line
AiOutput_RequestedPage(c, data) ==
    [query |-> c.query,
     total_results |-> data.pagination.total,
     page |-> c.page,
     skills |-> [i \in 1..Len(data.skills) |-> AiSkill(data.skills[i])]]

AiOutput(c, data) ==
    [query |-> c.query,
     total_results |-> data.pagination.total,
     page |-> data.pagination.page,
     skills |-> [i \in 1..Len(data.skills) |-> AiSkill(data.skills[i])]]

NoOutput == [query |-> "none"]

\* serde_json::to_string_pretty(&output): the JSON document of an AiOutput
SerAiSkill(s) ==
    JObj([name |-> JStr(s.name), author |-> JStr(s.author),
          description |-> JStr(s.description), stars |-> JNum(s.stars),
          url |-> JStr(s.url)])

to_string_pretty(out) ==
    JObj([query |-> JStr(out.query),
          total_results |-> JNum(out.total_results),
          page |-> JNum(out.page),
          skills |-> JArr([i \in 1..Len(out.skills) |-> SerAiSkill(out.skills[i])])])

Step(op, ok) == [op |-> op, ok |-> ok]

\* main returns Err(e): the runtime prints "Error: {e:?}" and exits with status 1
ReturnErr(msg, op) ==
    /\ stderr' = Append(stderr, "Error: " \o msg)
    /\ exit' = Some(1)
    /\ pc' = "exit"
    /\ steps' = Append(steps, Step(op, FALSE))

-----------------------------------------------------------------------------
(* The steps of one invocation *)

InitWith(clis) ==
    /\ pc = "start"
    /\ cli \in clis
    /\ request = NoRequest
    /\ body = Unread
    /\ response = NoResponse
    /\ output = NoOutput
    /\ stdout = <<>>
    /\ stderr = <<>>
    /\ exit = None
    /\ steps = <<>>

Init == InitWith(MainClis)

InitUrl == InitWith(AllClis)

\* search_skills, the format! of the URL and the request builder
BuildRequest ==
    /\ pc = "start"
    /\ request' = MkRequest(cli)
    /\ pc' = "built"
    /\ steps' = Append(steps, Step("build", TRUE))
    /\ UNCHANGED <<cli, body, response, output, stdout, stderr, exit>>

\* .send() returns a response (whatever its HTTP status)
SendOk ==
    /\ pc = "built"
    /\ pc' = "sent"
    /\ steps' = Append(steps, Step("send", TRUE))
    /\ UNCHANGED <<cli, request, body, response, output, stdout, stderr, exit>>

\* a failed send is reported and the pipeline goes on
SendFail_GoesOn ==
    /\ pc = "built"
    /\ stderr' = Append(stderr, "Error: " \o MsgSendFailed)
    /\ pc' = "sent"
    /\ steps' = Append(steps, Step("send", FALSE))
    /\ UNCHANGED <<cli, request, body, response, output, stdout, exit>>

\* .send() fails: ? returns the error out of search_skills and out of main
SendFail ==
    /\ pc = "built"
    /\ ReturnErr(MsgSendFailed, "send")
    /\ UNCHANGED <<cli, request, body, response, output, stdout>>

\* response.json(): the body is read and decoded
Json ==
    /\ pc = "sent"
    /\ \E b \in Bodies :
        /\ body' = b
        /\ LET r == DeApiResponse(b)
           IN  IF r.ok
               THEN /\ response' = r.v
                    /\ pc' = "decoded"
                    /\ steps' = Append(steps, Step("decode", TRUE))
                    /\ UNCHANGED <<stderr, exit>>
               ELSE /\ ReturnErr(MsgParseFailed, "decode")
                    /\ UNCHANGED response
    /\ UNCHANGED <<cli, request, output, stdout>>

\* response.json(): the connection breaks while the body is read
JsonReadFail ==
    /\ pc = "sent"
    /\ ReturnErr(MsgParseFailed, "decode")
    /\ UNCHANGED <<cli, request, body, response, output, stdout>>

\* main, the check of the API's own error signal
CheckSuccess ==
    /\ pc = "decoded"
    /\ IF ApiFailed(response)
       THEN /\ stderr' = Append(stderr, "Error: " \o ErrorMessage(response.error.v))
            /\ exit' = Some(1)
            /\ pc' = "exit"
            /\ steps' = Append(steps, Step("check", FALSE))
       ELSE /\ pc' = "checked"
            /\ steps' = Append(steps, Step("check", TRUE))
            /\ UNCHANGED <<stderr, exit>>
    /\ UNCHANGED <<cli, request, body, response, output, stdout>>

\* missing data is taken as an empty result
ProjectData_EmptyOnMissing ==
    /\ pc = "checked"
    /\ output' = IF response.data.some
                 THEN AiOutput(cli, response.data.v)
                 ELSE [query |-> cli.query, total_results |-> 0, page |-> cli.page,
                       skills |-> <<>>]
    /\ pc' = "projected"
    /\ steps' = Append(steps, Step("project", TRUE))
    /\ UNCHANGED <<cli, request, body, response, stdout, stderr, exit>>

\* main, response.data.context(..)? and the construction of AiOutput
ProjectData ==
    /\ pc = "checked"
    /\ IF response.data.some
       THEN /\ output' = AiOutput(cli, response.data.v)
            /\ pc' = "projected"
            /\ steps' = Append(steps, Step("project", TRUE))
            /\ UNCHANGED <<stderr, exit>>
       ELSE /\ ReturnErr(MsgNoData, "project")
            /\ UNCHANGED output
    /\ UNCHANGED <<cli, request, body, response, stdout>>

\* println! of the document, then Ok(()): exit status 0
PrintOutput ==
    /\ pc = "projected"
    /\ stdout' = Append(stdout, to_string_pretty(output))
    /\ exit' = Some(0)
    /\ pc' = "exit"
    /\ steps' = Append(steps, Step("print", TRUE))
    /\ UNCHANGED <<cli, request, body, response, output, stderr>>

\* println! panics when standard output cannot be written: exit status 101
PrintPanic ==
    /\ pc = "projected"
    /\ stderr' = Append(stderr, MsgPrintPanic)
    /\ exit' = Some(101)
    /\ pc' = "exit"
    /\ steps' = Append(steps, Step("print", FALSE))
    /\ UNCHANGED <<cli, request, body, response, output, stdout>>

Next ==
    \/ BuildRequest
    \/ SendOk
    \/ SendFail
    \/ Json
    \/ JsonReadFail
    \/ CheckSuccess
    \/ ProjectData
    \/ PrintOutput
    \/ PrintPanic

Spec == Init /\ [][Next]_vars

\* every call the process makes returns: the blocking client has a timeout
FairSpec == Spec /\ WF_vars(Next)

\* the request builder alone, on every command line of the model
SpecUrl == InitUrl /\ [][BuildRequest]_vars

-----------------------------------------------------------------------------
(* Vocabulary of the properties *)

Decoded == response # NoResponse

Exited == pc = "exit"

LastStep == steps[Len(steps)]

DecodeFailed == steps # <<>> /\ LastStep = Step("decode", FALSE)

SuccessIsFalse == Decoded /\ response.success.some /\ ~response.success.v

SuccessNotFalse == Decoded /\ (~response.success.some \/ response.success.v)

\* the data object, its skills array and its pagination as they stood in the body
RawData == body.o["data"].o
RawSkills == RawData["skills"].a
RawPagination == RawData["pagination"].o

\* the string a raw field holds, or "" when it is missing or null
RawStringOrEmpty(o, f) == IF f \in DOMAIN o /\ o[f].t = "str" THEN o[f].s ELSE ""

\* the number a raw field holds, or 0 when it is missing or null
RawNumberOrZero(o, f) == IF f \in DOMAIN o /\ o[f].t = "num" THEN o[f].n ELSE 0

-----------------------------------------------------------------------------
(* C1 - C4: the API's error signal and missing data *)

C1_Case == SuccessIsFalse /\ response.error.some /\ response.error.v.message.some

\* C1: when the decoded response has success = false and error.message = m, the
\* program writes exactly "Error: m" to standard error, exits with status 1 and
\* writes nothing to standard output, whatever data holds; it never goes on to
\* the projection.
C1_ApiErrorMessage ==
    C1_Case =>
        /\ pc \in {"decoded", "exit"}
        /\ stdout = <<>>
        /\ Exited => /\ stderr = <<"Error: " \o response.error.v.message.v>>
                     /\ exit = Some(1)

C1_Witness ==
    /\ Exited
    /\ C1_Case
    /\ response.error.v.message.v = "Rate limited"
    /\ response.data.some
    /\ exit = Some(1)

C2_Case == SuccessIsFalse /\ ~response.error.some

\* C2 (as claimed): when the decoded response has success = false and no error
\* field, the program writes "Error: Unknown error" to standard error, exits with
\* status 1 and prints no projected output.
C2_UnknownErrorWhenErrorAbsent ==
    (Exited /\ C2_Case) =>
        /\ stderr = <<"Error: Unknown error">>
        /\ exit = Some(1)
        /\ stdout = <<>>

C3_Case == SuccessIsFalse /\ response.error.some /\ ~response.error.v.message.some

\* C3: when the decoded response has success = false and an error object without
\* a message, the program writes "Error: Unknown error" to standard error and
\* exits with status 1.
C3_FallbackMessage ==
    C3_Case =>
        /\ pc \in {"decoded", "exit"}
        /\ Exited => /\ stderr = <<"Error: Unknown error">>
                     /\ exit = Some(1)

C3_Witness ==
    /\ Exited
    /\ C3_Case
    /\ response.error.v.code.some
    /\ stderr = <<"Error: Unknown error">>

C4_Case == SuccessNotFalse /\ ~response.data.some

\* C4: when success is absent or true and data is absent, the program fails with
\* the missing-data error: it ends with a non-zero exit status, the missing-data
\* message on standard error and nothing on standard output.
C4_MissingData ==
    C4_Case =>
        /\ pc \in {"decoded", "checked", "exit"}
        /\ stdout = <<>>
        /\ Exited => /\ exit.some /\ exit.v # 0
                     /\ stderr = <<"Error: " \o MsgNoData>>
                     /\ LastStep = Step("project", FALSE)

C4_Witness ==
    /\ Exited
    /\ C4_Case
    /\ response.success.some
    /\ response.error.some
    /\ exit = Some(1)

-----------------------------------------------------------------------------
(* C5, C6: the projection *)

\* the AiSkill that the i-th skill object of the body must give
ExpectedSkill(o) ==
    [name |-> o["name"].s,
     author |-> o["author"].s,
     description |-> RawStringOrEmpty(o, "description"),
     stars |-> RawNumberOrZero(o, "stars"),
     url |-> RawStringOrEmpty(o, "skillUrl")]

\* C5: whenever the projection is reached, the output skills have the length of
\* data.skills and the i-th output skill is built from the i-th input skill alone:
\* name and author copied, description or "", stars or 0, url = skillUrl or ""
\* whatever githubUrl holds; the printed document lists the same skills in the
\* same order; and the projection step fails only for missing data.
C5_SkillsProjection ==
    /\ output # NoOutput =>
        /\ Len(output.skills) = Len(RawSkills)
        /\ \A i \in 1..Len(RawSkills) : output.skills[i] = ExpectedSkill(RawSkills[i].o)
    /\ stdout # <<>> =>
        /\ Len(stdout[1].o.skills.a) = Len(RawSkills)
        /\ \A i \in 1..Len(RawSkills) :
              stdout[1].o.skills.a[i] = SerAiSkill(ExpectedSkill(RawSkills[i].o))
    /\ (steps # <<>> /\ LastStep = Step("project", FALSE)) => ~response.data.some

C5_Witness ==
    /\ stdout # <<>>
    /\ Len(output.skills) = 2
    /\ RawSkills[1].o = SkillB
    /\ RawSkills[2].o = SkillA
    /\ output.skills[1].url = ""
    /\ output.skills[1].stars = 0
    /\ output.skills[2].stars = 42

\* C6: after a successful run exactly one document is on standard output; its
\* query is the command line's query text, its total_results is
\* data.pagination.total and its page is data.pagination.page of the body (not
\* the page asked for); an empty skills array with total 0 gives total_results 0
\* and an empty skills list.
C6_OutputEnvelope ==
    (Exited /\ exit = Some(0)) =>
        /\ Len(stdout) = 1
        /\ stdout[1].t = "obj"
        /\ DOMAIN stdout[1].o = {"query", "total_results", "page", "skills"}
        /\ stdout[1].o.query = JStr(cli.query)
        /\ stdout[1].o.total_results = RawPagination["total"]
        /\ stdout[1].o.page = RawPagination["page"]
        /\ (RawSkills = <<>> /\ RawPagination["total"] = JNum(0)) =>
              /\ stdout[1].o.total_results = JNum(0)
              /\ stdout[1].o.skills = JArr(<<>>)

C6_Witness ==
    /\ Exited
    /\ exit = Some(0)
    /\ RawData = DataEmpty
    /\ cli.page = 12
    /\ stdout[1].o.page = JNum(1)
    /\ stdout[1].o.skills = JArr(<<>>)

-----------------------------------------------------------------------------
(* C7: decoding *)

\* j is of the declared type ty: "string", "uint" or "bool"
HasType(j, ty) ==
    CASE ty = "string" -> j.t = "str"
      [] ty = "uint"   -> j.t = "num" /\ j.n >= 0
      [] ty = "bool"   -> j.t = "bool"

\* the declared type of each plain field, by its name on the wire
DeclaredType ==
    [success |-> "bool", code |-> "string", message |-> "string",
     id |-> "string", name |-> "string", author |-> "string",
     description |-> "string", githubUrl |-> "string", skillUrl |-> "string",
     stars |-> "uint",
     page |-> "uint", limit |-> "uint", total |-> "uint", totalPages |-> "uint",
     hasNext |-> "bool", hasPrev |-> "bool"]

\* every plain field among fs that o holds is null or of its declared type
PlainFieldsTyped(o, fs) ==
    \A f \in fs \cap DOMAIN o : o[f].t = "null" \/ HasType(o[f], DeclaredType[f])

\* field f of o is left out or null
LeftOut(o, f) == f \notin DOMAIN o \/ o[f].t = "null"

SkillFields == {"id", "name", "author", "description", "githubUrl", "skillUrl", "stars"}
PaginationFields == {"page", "limit", "total", "totalPages", "hasNext", "hasPrev"}

SkillTyped(j) == j.t = "obj" /\ PlainFieldsTyped(j.o, SkillFields)

PaginationTyped(j) == j.t = "obj" /\ PlainFieldsTyped(j.o, PaginationFields)

DataTyped(j) ==
    /\ j.t = "obj"
    /\ LeftOut(j.o, "skills")
         \/ (j.o["skills"].t = "arr"
               /\ \A i \in 1..Len(j.o["skills"].a) : SkillTyped(j.o["skills"].a[i]))
    /\ LeftOut(j.o, "pagination") \/ PaginationTyped(j.o["pagination"])

ErrorTyped(j) == j.t = "obj" /\ PlainFieldsTyped(j.o, {"code", "message"})

\* b is a JSON object in which every field that is present has its declared type
BodyTyped(b) ==
    /\ b.t = "obj"
    /\ PlainFieldsTyped(b.o, {"success"})
    /\ LeftOut(b.o, "data") \/ DataTyped(b.o["data"])
    /\ LeftOut(b.o, "error") \/ ErrorTyped(b.o["error"])

\* the fields declared without Option are all there and not null, wherever the
\* object that declares them is present
RequiredThere(b) ==
    LeftOut(b.o, "data") \/
        LET d == b.o["data"].o
        IN  /\ ~LeftOut(d, "skills")
            /\ ~LeftOut(d, "pagination")
            /\ \A i \in 1..Len(d["skills"].a) :
                  \A f \in {"id", "name", "author"} : ~LeftOut(d["skills"].a[i].o, f)
            /\ \A f \in PaginationFields : ~LeftOut(d["pagination"].o, f)

\* C7 (as claimed): a body that is a JSON object whose present fields all have
\* their declared types always decodes, whichever fields are missing or null.
C7_DecodeNeverFailsOnTypedBody ==
    (body # Unread /\ BodyTyped(body)) => ~DecodeFailed

\* C7 (amended): a body that was read decodes exactly when it is a JSON object
\* whose present fields all have their declared types and whose required fields
\* (skills, pagination, each skill's id, name and author, the six pagination
\* fields, wherever data is present) are there and not null; the Option fields
\* may each be missing or null.
C7_DecodeIffTypedAndRequired ==
    body # Unread =>
        /\ Decoded <=> (BodyTyped(body) /\ RequiredThere(body))
        /\ ~Decoded <=> DecodeFailed

C7_Witness ==
    /\ Decoded
    /\ LeftOut(body.o, "success")
    /\ LeftOut(body.o, "error")
    /\ response.data.some
    /\ RawSkills = <<JObj(SkillB)>>
    /\ response.data.v.skills[1].description = None
    /\ response.data.v.skills[1].skill_url = None

-----------------------------------------------------------------------------
(* C8: exit status and standard output *)

\* C8 (as claimed): the process exits with status 0 exactly when one complete
\* document was written to standard output; on every error path the status is
\* not 0 and standard output is empty; success = false never ends with status 0.
C8_ExitStatusMatchesOutput ==
    Exited =>
        /\ Len(stdout) <= 1
        /\ exit = Some(0) <=> Len(stdout) = 1
        /\ ~LastStep.ok => (exit.v # 0 /\ stdout = <<>>)
        /\ SuccessIsFalse => (exit.v # 0 /\ stdout = <<>>)

-----------------------------------------------------------------------------
(* C9: the request *)

\* the places of token tok in u
Places(u, tok) == {i \in 1..Len(u) : u[i] = tok}

Place(u, tok) == CHOOSE i \in Places(u, tok) : TRUE

\* the value of a hexadecimal digit, or 16 for anything else
HexValue(c) ==
    IF \E i \in 1..16 : HexDigits[i] = c
    THEN (CHOOSE i \in 1..16 : HexDigits[i] = c) - 1
    ELSE 16

\* the character of a byte, or "?" when the model has none
CharOf(b) ==
    IF \E c \in DOMAIN Byte : Byte[c] = b
    THEN CHOOSE c \in DOMAIN Byte : Byte[c] = b
    ELSE "?"

\* percent-decoding as a server does it: %XX is one byte, anything else is itself;
\* a % that is not followed by two hexadecimal digits, or a character that may not
\* stand unencoded, gives "?"
RECURSIVE PercentDecode(_)
PercentDecode(e) ==
    IF e = <<>> THEN <<>>
    ELSE IF Head(e) = "%"
         THEN IF Len(e) >= 3 /\ HexValue(e[2]) < 16 /\ HexValue(e[3]) < 16
              THEN <<CharOf(16 * HexValue(e[2]) + HexValue(e[3]))>>
                       \o PercentDecode(SubSeq(e, 4, Len(e)))
              ELSE <<"?">>
         ELSE IF IsUnreserved(Head(e))
              THEN <<Head(e)>> \o PercentDecode(Tail(e))
              ELSE <<"?">>

\* the number a sequence of decimal digits writes, or -1
RECURSIVE ParseDec(_)
ParseDec(d) ==
    IF d = <<>> \/ \E i \in 1..Len(d) : \A k \in 1..10 : DecDigits[k] # d[i]
    THEN -1
    ELSE IF Len(d) = 1
         THEN (CHOOSE k \in 1..10 : DecDigits[k] = d[1]) - 1
         ELSE 10 * ParseDec(SubSeq(d, 1, Len(d) - 1)) + ParseDec(<<d[Len(d)]>>)

\* the part of u strictly between places i and j
Between(u, i, j) == SubSeq(u, i + 1, j - 1)

\* C9: the request is a GET with "Authorization: Bearer <api_key>" and
\* "Content-Type: application/json"; its URL is BASE_URL, "/skills/search?q=",
\* E, "&limit=", the limit, "&page=", the page, "&sortBy=" and the sort exactly as
\* given, each marker occurring once, where E percent-decodes to the query (so
\* the query was encoded, and once only), and limit and page read back as the
\* numbers given.
C9_RequestUrl ==
    pc = "built" =>
        LET u == request.url
        IN  /\ request.method = "GET"
            /\ DOMAIN request.headers = {"Authorization", "Content-Type"}
            /\ request.headers["Authorization"] = <<"Bearer ", cli.api_key>>
            /\ request.headers["Content-Type"] = <<"application/json">>
            /\ u[1] = BASE_URL
            /\ u[2] = "/skills/search?q="
            /\ \A tok \in {"/skills/search?q=", "&limit=", "&page=", "&sortBy="} :
                  Cardinality(Places(u, tok)) = 1
            /\ PercentDecode(Between(u, 2, Place(u, "&limit="))) = cli.query
            /\ ParseDec(Between(u, Place(u, "&limit="), Place(u, "&page="))) = cli.limit
            /\ ParseDec(Between(u, Place(u, "&page="), Place(u, "&sortBy="))) = cli.page
            /\ Place(u, "&sortBy=") = Len(u) - 1
            /\ u[Len(u)] = cli.sort

C9_Witness ==
    /\ pc = "built"
    /\ cli.query = <<" ", "%">>
    /\ cli.sort = "x&y=1"
    /\ cli.page = 12
    /\ Between(request.url, 2, Place(request.url, "&limit="))
          = <<"%", "2", "0", "%", "2", "5">>

-----------------------------------------------------------------------------
(* C10: one attempt, in order, to the end *)

Pipeline == <<"build", "send", "decode", "check", "project", "print">>

\* the steps performed are the first steps of the pipeline, each once and in
\* order, and only the last of them may have failed
StepsInOrder ==
    /\ Len(steps) <= Len(Pipeline)
    /\ \A i \in 1..Len(steps) : steps[i].op = Pipeline[i]
    /\ \A i \in 1..(Len(steps) - 1) : steps[i].ok

\* the process has ended exactly when a step failed or the last step was done
EndsAtFailureOrEnd ==
    Exited <=> (steps # <<>> /\ (~LastStep.ok \/ Len(steps) = Len(Pipeline)))

\* C10: an invocation is one attempt that ends: the steps happen at most once
\* each and in pipeline order (so at most one request is sent, decoding follows
\* a successful send, the check follows a successful decode, and so on), a
\* failed step is the last step, nothing happens after the exit, and the
\* process eventually exits.
C10_SingleAttemptTerminates ==
    /\ [](StepsInOrder /\ EndsAtFailureOrEnd)
    /\ [][~Exited /\ steps' = Append(steps, steps'[Len(steps')])]_vars
    /\ <>Exited

C10_Witness ==
    /\ Exited
    /\ Len(steps) = Len(Pipeline)
    /\ exit = Some(0)
    /\ Len(stdout) = 1

====
